---- MODULE Spec2Model ----
(***************************************************************************)
(* A model of jsonxf's Formatter (src/src/jsonxf.rs): the byte-at-a-time   *)
(* state machine of format_buf, driven chunk by chunk by format_stream     *)
(* through a BufWriter, over a byte source and a byte sink.                *)
(*                                                                         *)
(* Bytes are their ASCII/UTF-8 codes; strings are sequences of bytes.      *)
(***************************************************************************)
EXTENDS Integers, Sequences, FiniteSets, TLC

\* ------------------------------------------------------------------------
\* Byte constants (jsonxf.rs:28-41)
C_CR == 13
C_LF == 10
C_TAB == 9
C_SPACE == 32
C_COMMA == 44
C_COLON == 58
C_QUOTE == 34
C_BACKSLASH == 92
C_LEFT_BRACE == 123
C_LEFT_BRACKET == 91
C_RIGHT_BRACE == 125
C_RIGHT_BRACKET == 93

\* Bytes with no arm of their own in format_buf's match: a digit, a letter,
\* and the lead byte of a two-byte UTF-8 character.
B_DIGIT == 49
B_LETTER == 97
B_UTF8_LEAD == 195
\* 'X', the separator the formatter tests configure (never an input byte).
B_X == 88

\* ------------------------------------------------------------------------
\* Bounds of the model
\* longest byte stream fed to a run over arbitrary bytes
MaxLen == 4
\* longest stream fed to a run over valid JSON
MaxJsonLen == 7
\* whitespace bytes the JSON source interleaves
MaxWs == 1
\* capacity of the BufWriter's buffer (8192 in std, scaled down)
WriterCap == 3

\* chunk sizes a read of arbitrary bytes may return
ChunkSizes == {1, 2}

Alphabet ==
    {C_SPACE, C_LF, C_TAB, C_CR, C_COMMA, C_COLON, C_QUOTE, C_BACKSLASH,
     C_LEFT_BRACE, C_LEFT_BRACKET, C_RIGHT_BRACE, C_RIGHT_BRACKET,
     B_UTF8_LEAD}

\* depth is a usize. TLC's integers are 32 bits wide, so the one wrapped
\* value that occurs, 0 - 1 = 2^64 - 1, is written as its residue -1.
USIZE_MAX == -1

\* ------------------------------------------------------------------------
\* Formatter configurations

\* Formatter::default / Formatter::pretty_printer
pretty_printer ==
    [indent |-> <<C_SPACE, C_SPACE>>, line_separator |-> <<C_LF>>,
     record_separator |-> <<C_LF>>, after_colon |-> <<C_SPACE>>,
     trailing_output |-> <<>>]

\* Formatter::minimizer
minimizer ==
    [pretty_printer EXCEPT !.indent = <<>>, !.line_separator = <<>>,
                           !.record_separator = <<C_LF>>, !.after_colon = <<>>]

\* A pretty printer with its public fields overridden as the doc example of
\* Formatter::format (tab indent, trailing newline) and the record_separator
\* test ("X") do.
custom_printer ==
    [pretty_printer EXCEPT !.indent = <<C_TAB>>, !.trailing_output = <<C_LF>>,
                           !.record_separator = <<B_X>>]

Configs == {pretty_printer, minimizer, custom_printer}

\* ------------------------------------------------------------------------
\* std::io::BufWriter over the sink, as format_stream uses it.
\* buf: bytes buffered; sink: bytes the sink has accepted; left: bytes the
\* sink still accepts before it rejects every write (-1: it never fails);
\* ok: FALSE once a write returned Err.

NewWriter(left) == [buf |-> <<>>, sink |-> <<>>, left |-> left, ok |-> TRUE]

\* BufWriter::flush_buf: hand the buffered bytes to the sink.
flush_buf(w) ==
    IF w.left < 0 \/ Len(w.buf) <= w.left
    THEN [w EXCEPT !.sink = @ \o w.buf, !.buf = <<>>,
                   !.left = IF @ < 0 THEN @ ELSE @ - Len(w.buf)]
    ELSE [w EXCEPT !.sink = @ \o SubSeq(w.buf, 1, w.left),
                   !.buf = SubSeq(w.buf, w.left + 1, Len(w.buf)),
                   !.left = 0, !.ok = FALSE]

\* A write that bypasses the buffer (the bytes do not fit a whole buffer):
\* Write::write may accept a prefix only, and the callers drop its count.
inner_write(w, bytes) ==
    IF w.left < 0 \/ Len(bytes) <= w.left
    THEN [w EXCEPT !.sink = @ \o bytes,
                   !.left = IF @ < 0 THEN @ ELSE @ - Len(bytes)]
    ELSE IF w.left > 0
    THEN [w EXCEPT !.sink = @ \o SubSeq(bytes, 1, w.left), !.left = 0]
    ELSE [w EXCEPT !.ok = FALSE]

\* BufWriter::write, followed by the caller's `?`.
write(w, bytes) ==
    LET w1 == IF Len(w.buf) + Len(bytes) > WriterCap THEN flush_buf(w) ELSE w
    IN  IF ~w1.ok THEN w1
        ELSE IF Len(bytes) >= WriterCap THEN inner_write(w1, bytes)
        ELSE [w1 EXCEPT !.buf = @ \o bytes]

\* A run of writes, each followed by `?`: the first Err ends the run.
RECURSIVE write_each(_, _)
write_each(w, ws) ==
    IF ws = <<>> \/ ~w.ok THEN w
    ELSE write_each(write(w, Head(ws)), Tail(ws))

\* Drop of the BufWriter when format_stream returns: one more flush_buf whose
\* result is discarded.
drop_writer(w) == [flush_buf(w) EXCEPT !.ok = w.ok]

\* ------------------------------------------------------------------------
\* format_buf, one byte at a time.
\* st: [depth, in_string, in_backslash, empty, first, w, res]
\* res: "ok", or how the call ended: "err" (a write returned Err), "panic"
\* (subtraction overflow in a build with overflow checks), "spin" (the
\* indent loop running to 2^64 - 1 in a build without them).

\* for _ in 0..depth { writer.write(indent)?; }
indent_writes(o, depth) == [i \in 1..depth |-> o.indent]

Failed(st, w) == [st EXCEPT !.w = w, !.res = "err"]

\* string_byte with a slip: an opening bracket inside a string is counted.
string_byte_counts_brackets(o, st, b) ==
    LET w1 == write(st.w, <<b>>)
        s1 == IF b \in {C_LEFT_BRACKET, C_LEFT_BRACE}
              THEN [st EXCEPT !.depth = @ + 1] ELSE st
    IN  IF ~w1.ok THEN Failed(st, w1)
        ELSE IF st.in_backslash THEN [s1 EXCEPT !.w = w1, !.in_backslash = FALSE]
        ELSE IF b = C_QUOTE THEN [s1 EXCEPT !.w = w1, !.in_string = FALSE]
        ELSE IF b = C_BACKSLASH THEN [s1 EXCEPT !.w = w1, !.in_backslash = TRUE]
        ELSE [s1 EXCEPT !.w = w1]

\* string_byte with a slip: the backslash test comes first, so a backslash
\* that is itself escaped still escapes the next byte.
string_byte_backslash_first(o, st, b) ==
    LET w1 == write(st.w, <<b>>)
    IN  IF ~w1.ok THEN Failed(st, w1)
        ELSE IF b = C_BACKSLASH THEN [st EXCEPT !.w = w1, !.in_backslash = TRUE]
        ELSE IF st.in_backslash THEN [st EXCEPT !.w = w1, !.in_backslash = FALSE]
        ELSE IF b = C_QUOTE THEN [st EXCEPT !.w = w1, !.in_string = FALSE]
        ELSE [st EXCEPT !.w = w1]

\* jsonxf.rs:209-217
string_byte(o, st, b) ==
    LET w1 == write(st.w, <<b>>)
    IN  IF ~w1.ok THEN Failed(st, w1)
        ELSE IF st.in_backslash THEN [st EXCEPT !.w = w1, !.in_backslash = FALSE]
        ELSE IF b = C_QUOTE THEN [st EXCEPT !.w = w1, !.in_string = FALSE]
        ELSE IF b = C_BACKSLASH THEN [st EXCEPT !.w = w1, !.in_backslash = TRUE]
        ELSE [st EXCEPT !.w = w1]

\* whitespace with a slip: the space is missing from the match arm's
\* pattern, so a space is copied to the output.
whitespace_keeps_space(o, st, b) ==
    IF b = C_SPACE
    THEN LET w1 == write(st.w, <<b>>)
         IN  IF ~w1.ok THEN Failed(st, w1) ELSE [st EXCEPT !.w = w1]
    ELSE st

\* whitespace with a slip: the byte is copied to the output.
whitespace_emits(o, st, b) ==
    LET w1 == write(st.w, <<b>>)
    IN  IF ~w1.ok THEN Failed(st, w1) ELSE [st EXCEPT !.w = w1]

\* jsonxf.rs:220-222
whitespace(o, st, b) == st

\* open_bracket with a slip: depth is incremented before the prefix is
\* chosen, so the bracket is indented one level too deep and never taken
\* for the start of a record.
open_bracket_increments_first(o, st, b) ==
    LET s1 == IF st.first THEN [st EXCEPT !.first = FALSE] ELSE st
        d  == st.depth + 1
        ws == IF st.first THEN << <<b>> >>
              ELSE IF st.empty
                   THEN <<o.line_separator>> \o indent_writes(o, d)
                        \o << <<b>> >>
              ELSE IF d = 0 THEN <<o.record_separator, <<b>> >>
              ELSE << <<b>> >>
        w1 == write_each(st.w, ws)
    IN  IF ~w1.ok THEN Failed(s1, w1)
        ELSE [s1 EXCEPT !.w = w1, !.depth = d, !.empty = TRUE]

\* open_bracket with a slip: `first` is not consulted, so the first record
\* gets a separator too.
open_bracket_ignores_first(o, st, b) ==
    LET s1 == IF st.first THEN [st EXCEPT !.first = FALSE] ELSE st
        ws == IF st.empty
              THEN <<o.line_separator>> \o indent_writes(o, st.depth)
                   \o << <<b>> >>
              ELSE IF st.depth = 0 THEN <<o.record_separator, <<b>> >>
              ELSE << <<b>> >>
        w1 == write_each(st.w, ws)
    IN  IF ~w1.ok THEN Failed(s1, w1)
        ELSE [s1 EXCEPT !.w = w1, !.depth = @ + 1, !.empty = TRUE]

\* open_bracket with a slip: the record separator is written after the
\* bracket.
open_bracket_separator_late(o, st, b) ==
    LET s1 == IF st.first THEN [st EXCEPT !.first = FALSE] ELSE st
        ws == IF st.first THEN << <<b>> >>
              ELSE IF st.empty
                   THEN <<o.line_separator>> \o indent_writes(o, st.depth)
                        \o << <<b>> >>
              ELSE IF st.depth = 0 THEN << <<b>>, o.record_separator >>
              ELSE << <<b>> >>
        w1 == write_each(st.w, ws)
    IN  IF ~w1.ok THEN Failed(s1, w1)
        ELSE [s1 EXCEPT !.w = w1, !.depth = @ + 1, !.empty = TRUE]

\* jsonxf.rs:224-243
open_bracket(o, st, b) ==
    LET s1 == IF st.first THEN [st EXCEPT !.first = FALSE] ELSE st
        ws == IF st.first THEN << <<b>> >>
              ELSE IF st.empty
                   THEN <<o.line_separator>> \o indent_writes(o, st.depth)
                        \o << <<b>> >>
              ELSE IF st.depth = 0 THEN <<o.record_separator, <<b>> >>
              ELSE << <<b>> >>
        w1 == write_each(st.w, ws)
    IN  IF ~w1.ok THEN Failed(s1, w1)
        ELSE [s1 EXCEPT !.w = w1, !.depth = @ + 1, !.empty = TRUE]

\* close_bracket with a slip: the closing bracket is indented by the depth
\* before the decrement.
close_bracket_indents_old_depth(o, st, b, oc) ==
    IF st.depth = 0 /\ oc THEN [st EXCEPT !.res = "panic"]
    ELSE LET d  == IF st.depth = 0 THEN USIZE_MAX ELSE st.depth - 1
             s1 == [st EXCEPT !.depth = d]
         IN  IF st.empty
             THEN LET w1 == write(st.w, <<b>>)
                  IN  IF ~w1.ok THEN Failed([s1 EXCEPT !.empty = FALSE], w1)
                      ELSE [s1 EXCEPT !.empty = FALSE, !.w = w1]
             ELSE LET w1 == write(st.w, o.line_separator)
                  IN  IF ~w1.ok THEN Failed(s1, w1)
                      ELSE IF d = USIZE_MAX THEN [s1 EXCEPT !.w = w1, !.res = "spin"]
                      ELSE LET w2 == write_each(w1, indent_writes(o, st.depth) \o << <<b>> >>)
                           IN  IF ~w2.ok THEN Failed(s1, w2)
                               ELSE [s1 EXCEPT !.w = w2]

\* close_bracket with a slip: no special case for an empty structure.
close_bracket_no_empty_case(o, st, b, oc) ==
    IF st.depth = 0 /\ oc THEN [st EXCEPT !.res = "panic"]
    ELSE LET d  == IF st.depth = 0 THEN USIZE_MAX ELSE st.depth - 1
             s1 == [st EXCEPT !.depth = d, !.empty = FALSE]
             w1 == write(st.w, o.line_separator)
         IN  IF ~w1.ok THEN Failed(s1, w1)
             ELSE IF d = USIZE_MAX THEN [s1 EXCEPT !.w = w1, !.res = "spin"]
             ELSE LET w2 == write_each(w1, indent_writes(o, d) \o << <<b>> >>)
                  IN  IF ~w2.ok THEN Failed(s1, w2)
                      ELSE [s1 EXCEPT !.w = w2]

\* jsonxf.rs:245-257. oc: whether the build checks arithmetic overflow.
close_bracket(o, st, b, oc) ==
    IF st.depth = 0 /\ oc THEN [st EXCEPT !.res = "panic"]
    ELSE LET d  == IF st.depth = 0 THEN USIZE_MAX ELSE st.depth - 1
             s1 == [st EXCEPT !.depth = d]
         IN  IF st.empty
             THEN LET w1 == write(st.w, <<b>>)
                  IN  IF ~w1.ok THEN Failed([s1 EXCEPT !.empty = FALSE], w1)
                      ELSE [s1 EXCEPT !.empty = FALSE, !.w = w1]
             ELSE LET w1 == write(st.w, o.line_separator)
                  IN  IF ~w1.ok THEN Failed(s1, w1)
                      ELSE IF d = USIZE_MAX THEN [s1 EXCEPT !.w = w1, !.res = "spin"]
                      ELSE LET w2 == write_each(w1, indent_writes(o, d) \o << <<b>> >>)
                           IN  IF ~w2.ok THEN Failed(s1, w2)
                               ELSE [s1 EXCEPT !.w = w2]

\* jsonxf.rs:259-265
comma(o, st, b) ==
    LET w1 == write_each(st.w, << <<b>>, o.line_separator >> \o indent_writes(o, st.depth))
    IN  IF ~w1.ok THEN Failed(st, w1) ELSE [st EXCEPT !.w = w1]

\* jsonxf.rs:267-270
colon(o, st, b) ==
    LET w1 == write_each(st.w, << <<b>>, o.after_colon >>)
    IN  IF ~w1.ok THEN Failed(st, w1) ELSE [st EXCEPT !.w = w1]

\* The default arm with a slip: a backslash sets the escape flag outside a
\* string too.
other_byte_tracks_backslash(o, st, b) ==
    LET w1 == IF st.empty
              THEN write_each(st.w, <<o.line_separator>> \o indent_writes(o, st.depth))
              ELSE st.w
    IN  IF ~w1.ok THEN Failed(st, w1)
        ELSE LET s1 == [st EXCEPT !.empty = FALSE,
                                  !.in_backslash = IF b = C_BACKSLASH THEN TRUE ELSE @,
                                  !.in_string = IF b = C_QUOTE THEN TRUE ELSE @]
                 w2 == write(w1, <<b>>)
             IN  IF ~w2.ok THEN Failed(s1, w2) ELSE [s1 EXCEPT !.w = w2]

\* The default arm with a slip: it clears `first` as the opening-bracket arm
\* does.
other_byte_clears_first(o, st, b) ==
    LET w1 == IF st.empty
              THEN write_each(st.w, <<o.line_separator>> \o indent_writes(o, st.depth))
              ELSE st.w
    IN  IF ~w1.ok THEN Failed(st, w1)
        ELSE LET s1 == [st EXCEPT !.empty = FALSE, !.first = FALSE,
                                  !.in_string = IF b = C_QUOTE THEN TRUE ELSE @]
                 w2 == write(w1, <<b>>)
             IN  IF ~w2.ok THEN Failed(s1, w2) ELSE [s1 EXCEPT !.w = w2]

\* The default arm with a slip: the deferred separator is skipped, and the
\* empty flag left set, when line_separator is the empty string.
other_byte_skips_empty_separator(o, st, b) ==
    LET sep == st.empty /\ o.line_separator # <<>>
        w1  == IF sep
               THEN write_each(st.w, <<o.line_separator>> \o indent_writes(o, st.depth))
               ELSE st.w
    IN  IF ~w1.ok THEN Failed(st, w1)
        ELSE LET s1 == [st EXCEPT !.empty = IF sep THEN FALSE ELSE @,
                                  !.in_string = IF b = C_QUOTE THEN TRUE ELSE @]
                 w2 == write(w1, <<b>>)
             IN  IF ~w2.ok THEN Failed(s1, w2) ELSE [s1 EXCEPT !.w = w2]

\* The default arm with a slip: the empty flag is not cleared, so the
\* deferred separator and indent are written before every later byte too.
other_byte_keeps_empty(o, st, b) ==
    LET w1 == IF st.empty
              THEN write_each(st.w, <<o.line_separator>> \o indent_writes(o, st.depth))
              ELSE st.w
    IN  IF ~w1.ok THEN Failed(st, w1)
        ELSE LET s1 == [st EXCEPT !.in_string = IF b = C_QUOTE THEN TRUE ELSE @]
                 w2 == write(w1, <<b>>)
             IN  IF ~w2.ok THEN Failed(s1, w2) ELSE [s1 EXCEPT !.w = w2]

\* jsonxf.rs:272-284
other_byte(o, st, b) ==
    LET w1 == IF st.empty
              THEN write_each(st.w, <<o.line_separator>> \o indent_writes(o, st.depth))
              ELSE st.w
    IN  IF ~w1.ok THEN Failed(st, w1)
        ELSE LET s1 == [st EXCEPT !.empty = FALSE,
                                  !.in_string = IF b = C_QUOTE THEN TRUE ELSE @]
                 w2 == write(w1, <<b>>)
             IN  IF ~w2.ok THEN Failed(s1, w2) ELSE [s1 EXCEPT !.w = w2]

\* The body of format_buf's loop for the byte b (jsonxf.rs:207-286).
format_byte(o, st, b, oc) ==
    IF st.in_string THEN string_byte(o, st, b)
    ELSE IF b \in {C_SPACE, C_LF, C_CR, C_TAB} THEN whitespace(o, st, b)
    ELSE IF b \in {C_LEFT_BRACKET, C_LEFT_BRACE} THEN open_bracket(o, st, b)
    ELSE IF b \in {C_RIGHT_BRACKET, C_RIGHT_BRACE} THEN close_bracket(o, st, b, oc)
    ELSE IF b = C_COMMA THEN comma(o, st, b)
    ELSE IF b = C_COLON THEN colon(o, st, b)
    ELSE other_byte(o, st, b)

\* for n in 0..buf.len(): the state after buf[n..], and in .n the number of
\* bytes of buf the loop looked at.
RECURSIVE format_from(_, _, _, _, _)
format_from(o, st, buf, n, oc) ==
    IF n > Len(buf) \/ st.res # "ok" THEN [st EXCEPT !.n = n - 1]
    ELSE format_from(o, format_byte(o, st, buf[n], oc), buf, n + 1, oc)

\* format_buf with a slip: the escape flag is not carried over from the
\* previous chunk.
format_buf_resets_escape(o, st, buf, oc) ==
    format_from(o, [st EXCEPT !.in_backslash = FALSE], buf, 1, oc)

\* Formatter::format_buf (jsonxf.rs:205-290)
format_buf(o, st, buf, oc) == format_from(o, st, buf, 1, oc)

\* The private state of a new Formatter (jsonxf.rs:89-93) with a new writer.
NewState(left) ==
    [depth |-> 0, in_string |-> FALSE, in_backslash |-> FALSE, empty |-> FALSE,
     first |-> TRUE, w |-> NewWriter(left), res |-> "ok", n |-> 0]

\* ------------------------------------------------------------------------
\* The state of one format_stream call, and of the source feeding it
VARIABLES
    opts,          \* the Formatter's public option fields
    depth, in_string, in_backslash, empty, first,   \* its private state
    writer,        \* the BufWriter and the sink behind it
    pc,            \* "loop", or how format_stream ended: ok / err / panic / spin
    consumed,      \* the input bytes format_buf has looked at so far
    src,           \* what a source of valid JSON has produced so far
    cli            \* the command-line tool around the call: arguments, files, exit

vars == <<opts, depth, in_string, in_backslash, empty, first, writer, pc,
          consumed, src, cli>>

\* The Formatter called as a library, with no command-line tool around it.
NoCli == [at |-> "library"]

fmt == <<depth, in_string, in_backslash, empty, first>>

State == [depth |-> depth, in_string |-> in_string, in_backslash |-> in_backslash,
          empty |-> empty, first |-> first, w |-> writer, res |-> "ok", n |-> 0]

\* The bytes format_stream has written so far (those the sink has and those
\* still buffered).
Emitted == writer.sink \o writer.buf

ByteChunks == UNION {[1..k -> Alphabet] : k \in ChunkSizes}

\* ------------------------------------------------------------------------
\* A source of valid JSON: a stream of concatenated JSON values, produced one
\* token at a time with whitespace in between.
\* src.stack: the open containers ("A" array, "O" object), innermost last;
\* src.phase: what the grammar allows next; src.last: the kind of the last
\* token that is not whitespace; src.ws: whether whitespace followed it;
\* src.nws: whitespace bytes produced; src.roots: the kind of each root-level
\* value begun ("C" object or array, "S" scalar); src.stripped: the tokens
\* produced, whitespace left out.

WsToks == {<<C_SPACE>>, <<C_LF>>, <<C_TAB>>, <<C_CR>>}
NumTok == <<B_DIGIT>>
StringToks == {<<C_QUOTE, B_LETTER, C_QUOTE>>, <<C_QUOTE, C_SPACE, C_QUOTE>>,
               <<C_QUOTE, C_BACKSLASH, C_QUOTE, C_QUOTE>>}
Openers == {C_LEFT_BRACKET, C_LEFT_BRACE}
Closers == {C_RIGHT_BRACKET, C_RIGHT_BRACE}

NewSource ==
    [stack |-> <<>>, phase |-> "root", last |-> "none", ws |-> FALSE, nws |-> 0,
     roots |-> <<>>, stripped |-> <<>>]

Top(s) == IF s.stack = <<>> THEN "none" ELSE s.stack[Len(s.stack)]

AfterValue(stack) == IF stack = <<>> THEN "root" ELSE "after"

ValueAllowed(s) == s.phase \in {"root", "value", "first_elem"}

\* The source after it produced the token tok of kind k.
Produced(s, tok, k) ==
    [s EXCEPT !.last = k, !.ws = FALSE, !.stripped = @ \o tok]

\* The tokens the grammar allows next, each with the source's next state.
SourceMoves(s) ==
    {<<w, [s EXCEPT !.ws = TRUE, !.nws = @ + 1]>> : w \in {x \in WsToks : s.nws < MaxWs}}
    \cup
    {<<t, [Produced(s, t, "str") EXCEPT
              !.phase = AfterValue(s.stack),
              !.roots = IF s.stack = <<>> THEN Append(@, "S") ELSE @]>> :
        t \in {x \in StringToks : ValueAllowed(s)}}
    \cup
    {<<t, [Produced(s, t, "num") EXCEPT
              !.phase = AfterValue(s.stack),
              !.roots = IF s.stack = <<>> THEN Append(@, "S") ELSE @]>> :
        t \in {x \in {NumTok} : ValueAllowed(s) /\ ~(s.last = "num" /\ ~s.ws)}}
    \cup
    {<<t, [Produced(s, t, "key") EXCEPT !.phase = "colon"]>> :
        t \in {x \in StringToks : s.phase \in {"first_key", "key"}}}
    \cup
    {<<t, [Produced(s, t, "colon") EXCEPT !.phase = "value"]>> :
        t \in {x \in {<<C_COLON>>} : s.phase = "colon"}}
    \cup
    {<<t, [Produced(s, t, "comma") EXCEPT
              !.phase = IF Top(s) = "O" THEN "key" ELSE "value"]>> :
        t \in {x \in {<<C_COMMA>>} : s.phase = "after"}}
    \cup
    {<<t, [Produced(s, t, "open") EXCEPT
              !.stack = Append(@, IF t = <<C_LEFT_BRACE>> THEN "O" ELSE "A"),
              !.phase = IF t = <<C_LEFT_BRACE>> THEN "first_key" ELSE "first_elem",
              !.roots = IF s.stack = <<>> THEN Append(@, "C") ELSE @]>> :
        t \in {x \in {<<C_LEFT_BRACKET>>, <<C_LEFT_BRACE>>} : ValueAllowed(s)}}
    \cup
    {<<t, [Produced(s, t, "close") EXCEPT
              !.stack = SubSeq(@, 1, Len(@) - 1),
              !.phase = AfterValue(SubSeq(s.stack, 1, Len(s.stack) - 1))]>> :
        t \in {x \in {<<C_RIGHT_BRACKET>>, <<C_RIGHT_BRACE>>} :
                 /\ s.phase \in {"after", "first_elem", "first_key"}
                 /\ x = IF Top(s) = "O" THEN <<C_RIGHT_BRACE>> ELSE <<C_RIGHT_BRACKET>>}}

\* The stream produced so far is a sequence of complete JSON values.
Complete(s) == s.stack = <<>> /\ s.phase = "root"

\* ------------------------------------------------------------------------
Init ==
    /\ opts \in Configs
    /\ depth = 0 /\ in_string = FALSE /\ in_backslash = FALSE
    /\ empty = FALSE /\ first = TRUE
    /\ writer = NewWriter(-1)
    /\ pc = "loop"
    /\ consumed = <<>>
    /\ src = NewSource
    /\ cli = NoCli

\* The results format_buf can have on a chunk: one, or two when the chunk
\* takes depth below zero (the build decides between a panic and a wrap).
Outcomes(chunk) ==
    LET r == format_buf(opts, State, chunk, TRUE)
    IN  IF r.res = "panic" THEN {r, format_buf(opts, State, chunk, FALSE)} ELSE {r}

\* The writer as a format_buf call with result r leaves it: still in use when
\* the call returned Ok or never returns, dropped when format_stream ends on
\* the call's Err or unwinds from its panic.
Left(r) == IF r.res \in {"ok", "spin"} THEN r.w ELSE drop_writer(r.w)

\* Ok(n) => self.format_buf(&buf[0..n], &mut writer)?  (jsonxf.rs:191-193)
Formatted(chunk, r) ==
    /\ depth' = r.depth
    /\ in_string' = r.in_string
    /\ in_backslash' = r.in_backslash
    /\ empty' = r.empty
    /\ first' = r.first
    /\ writer' = Left(r)
    /\ pc' = IF r.res = "ok" THEN "loop" ELSE r.res
    /\ consumed' = consumed \o SubSeq(chunk, 1, r.n)

\* reader.read returned a chunk of arbitrary bytes.
Read ==
    /\ pc = "loop"
    /\ \E chunk \in ByteChunks :
         /\ Len(consumed) + Len(chunk) <= MaxLen
         /\ \E r \in Outcomes(chunk) : Formatted(chunk, r)
    /\ UNCHANGED <<opts, src, cli>>

\* reader.read returned the next token of a valid JSON stream.
ReadJson ==
    /\ pc = "loop"
    /\ \E m \in SourceMoves(src) :
         /\ Len(consumed) + Len(m[1]) <= MaxJsonLen
         /\ src' = m[2]
         /\ \E r \in Outcomes(m[1]) : Formatted(m[1], r)
    /\ UNCHANGED <<opts, cli>>

\* The end of input with a slip: `return Ok(())` where the code has `break`,
\* so the trailing output is never written.
Eof_returns_early ==
    /\ pc = "loop"
    /\ writer' = drop_writer(writer)
    /\ pc' = "ok"
    /\ UNCHANGED <<opts, fmt, consumed, src, cli>>

\* Ok(0): end of input; trailing_output is written and Ok(()) returned
\* (jsonxf.rs:188-190, 199-200).
Eof ==
    /\ pc = "loop"
    /\ LET w1 == write(writer, opts.trailing_output)
       IN  /\ writer' = drop_writer(w1)
           /\ pc' = IF w1.ok THEN "ok" ELSE "err"
    /\ UNCHANGED <<opts, fmt, consumed, src, cli>>

\* End of a stream of complete JSON values.
EofJson == Complete(src) /\ Eof

Next == Read \/ Eof

Spec == Init /\ [][Next]_vars

NextJson == ReadJson \/ EofJson

SpecJson == Init /\ [][NextJson]_vars

\* A sink that rejects every write once it has accepted `left` bytes.
MaxSinkLeft == 4

InitIO ==
    /\ opts \in Configs
    /\ depth = 0 /\ in_string = FALSE /\ in_backslash = FALSE
    /\ empty = FALSE /\ first = TRUE
    /\ \E left \in 0..MaxSinkLeft : writer = NewWriter(left)
    /\ pc = "loop"
    /\ consumed = <<>>
    /\ src = NewSource
    /\ cli = NoCli

SpecIO == InitIO /\ [][NextJson]_vars

\* ------------------------------------------------------------------------
\* Helpers of the properties

CountByte(s, b) == Cardinality({i \in DOMAIN s : s[i] = b})

Range(s) == {s[i] : i \in DOMAIN s}

\* The last n bytes of s.
Suffix(s, n) == SubSeq(s, Len(s) - n + 1, Len(s))

\* JSON's own rule for string literals, by counting backslashes: a quote
\* outside a string opens one; inside, a quote closes the string iff the run
\* of backslashes right before it is even. [in, run] after bytes[i..].
RECURSIVE LexFrom(_, _, _, _)
LexFrom(bytes, i, in, run) ==
    IF i > Len(bytes) THEN [in |-> in, run |-> run]
    ELSE LET b == bytes[i]
         IN  IF ~in THEN LexFrom(bytes, i + 1, b = C_QUOTE, 0)
             ELSE IF b = C_BACKSLASH THEN LexFrom(bytes, i + 1, TRUE, run + 1)
             ELSE IF b = C_QUOTE /\ run % 2 = 0 THEN LexFrom(bytes, i + 1, FALSE, 0)
             ELSE LexFrom(bytes, i + 1, TRUE, 0)

Lex(bytes) == LexFrom(bytes, 1, FALSE, 0)

\* The number of copies of ind that out carries from position j on.
RECURSIVE CopiesAt(_, _, _)
CopiesAt(out, j, ind) ==
    IF j + Len(ind) - 1 <= Len(out) /\ SubSeq(out, j, j + Len(ind) - 1) = ind
    THEN 1 + CopiesAt(out, j + Len(ind), ind)
    ELSE 0

\* Every line of out that a newline outside a string starts, and that holds a
\* token, begins with as many copies of ind as the nesting depth of that
\* token: the brackets open before it, less one when the token is a closing
\* bracket. Scans out[i..] with d brackets open.
RECURSIVE LinesIndented(_, _, _, _, _)
LinesIndented(out, ind, i, d, lex) ==
    IF i > Len(out) THEN TRUE
    ELSE LET b   == out[i]
             nxt == LexFrom(<<b>>, 1, lex.in, lex.run)
         IN  IF lex.in THEN LinesIndented(out, ind, i + 1, d, nxt)
             ELSE IF b = C_LF
             THEN LET k == CopiesAt(out, i + 1, ind)
                      j == i + 1 + k * Len(ind)
                  IN  IF j > Len(out) THEN TRUE
                      ELSE /\ k = d - (IF out[j] \in Closers THEN 1 ELSE 0)
                           /\ LinesIndented(out, ind, j, d, nxt)
             ELSE LinesIndented(out, ind, i + 1,
                                d + (IF b \in Openers THEN 1 ELSE 0)
                                  - (IF b \in Closers THEN 1 ELSE 0), nxt)

\* A read that handed format_buf exactly one byte, with format_stream still
\* in its loop afterwards.
OneByteStep == pc = "loop" /\ pc' = "loop" /\ Len(consumed') = Len(consumed) + 1

\* ------------------------------------------------------------------------
\* Properties

\* C1. Chunk independence: whatever chunks the input arrived in, the state of
\* the run and the bytes written are those of format_buf applied once to the
\* whole input as a single chunk by a new Formatter (followed, when
\* format_stream has returned, by the trailing output and the drop of the
\* writer).
C1_ChunkIndependence ==
    LET r == format_buf(opts, NewState(-1), consumed, pc # "spin")
    IN  IF pc = "loop"
        THEN /\ r.res = "ok"
             /\ r.w = writer
             /\ <<r.depth, r.in_string, r.in_backslash, r.empty, r.first>> = fmt
        ELSE IF pc = "ok"
        THEN /\ r.res = "ok"
             /\ writer = drop_writer(write(r.w, opts.trailing_output))
        ELSE r.res = pc /\ writer = Left(r)

\* The input `"\""` has arrived in at least two chunks (no chunk is longer
\* than two bytes) and was formatted to itself.
C1_Witness ==
    /\ pc = "ok"
    /\ consumed = <<C_QUOTE, C_BACKSLASH, C_QUOTE, C_QUOTE>>
    /\ opts = minimizer
    /\ writer.sink = consumed

\* C2. minimize() of one valid JSON value surrounded and interleaved with
\* whitespace returns the input without the whitespace bytes that lie
\* outside string literals, and nothing else.
C2_MinimizeStripsWhitespace ==
    (opts = minimizer /\ pc = "ok" /\ Len(src.roots) = 1)
        => writer.sink = src.stripped /\ writer.buf = <<>>

\* `[ " "]` was minimized to `[" "]`.
C2_Witness ==
    /\ opts = minimizer /\ pc = "ok"
    /\ consumed = <<C_LEFT_BRACKET, C_SPACE, C_QUOTE, C_SPACE, C_QUOTE, C_RIGHT_BRACKET>>
    /\ writer.sink = <<C_LEFT_BRACKET, C_QUOTE, C_SPACE, C_QUOTE, C_RIGHT_BRACKET>>

\* C3. For every input byte sequence, structurally invalid JSON included,
\* format_stream over a source and sink that do not fail runs to completion
\* and returns Ok(()): it never panics and never fails to terminate.
C3_AlwaysCompletes == pc \in {"loop", "ok"}

\* C4. format_stream never returns Ok(()) when formatted bytes failed to
\* reach the sink: on Ok(()) no byte is left behind in the writer.
C4_NoSwallowedWriteError == pc = "ok" => writer.buf = <<>>

\* C5. String-content inertness: a byte read while in_string is true is
\* written once and unmodified, nothing else is written, and depth, empty
\* and first keep their values.
C5_StringInert ==
    [][(OneByteStep /\ in_string)
          => /\ Emitted' = Append(Emitted, consumed'[Len(consumed')])
             /\ depth' = depth /\ empty' = empty /\ first' = first]_vars

\* A `{` was read inside a string that is still open.
C5_Witness ==
    /\ pc = "loop" /\ in_string
    /\ consumed = <<C_LEFT_BRACE, C_QUOTE, C_RIGHT_BRACE, C_LEFT_BRACE>>
    /\ depth = 1
    /\ Suffix(Emitted, 3) = <<C_QUOTE, C_RIGHT_BRACE, C_LEFT_BRACE>>

\* C6. Escape-boundary correctness: the formatter is inside a string exactly
\* when the backslash-counting rule says so (a quote ends the string iff an
\* even number of consecutive backslashes precedes it), and in_backslash is
\* set exactly when the run of backslashes read so far is odd.
C6_EscapeParity ==
    LET l == Lex(consumed)
    IN  /\ in_string = l.in
        /\ in_backslash = (l.in /\ l.run % 2 = 1)

\* `"\\"` was read: the quote after two backslashes closed the string.
C6_Witness ==
    /\ consumed = <<C_QUOTE, C_BACKSLASH, C_BACKSLASH, C_QUOTE>>
    /\ ~in_string /\ ~in_backslash /\ pc = "loop"

\* C7. Depth-indent correlation: in the pretty-printer's output for valid
\* JSON, every line after a newline starts with exactly d copies of the
\* indent, d being the nesting depth of the first token of the line (after
\* the decrement when that token is a closing bracket).
C7_IndentMatchesDepth ==
    (opts.line_separator = <<C_LF>> /\ opts.indent # <<>>)
        => LinesIndented(Emitted, opts.indent, 1, 0, Lex(<<>>))

\* `[[1],1]` was pretty-printed with a tab indent.
C7_Witness ==
    /\ pc = "ok" /\ opts = custom_printer
    /\ consumed = <<C_LEFT_BRACKET, C_LEFT_BRACKET, B_DIGIT, C_RIGHT_BRACKET,
                    C_COMMA, B_DIGIT, C_RIGHT_BRACKET>>
    /\ writer.sink = <<C_LEFT_BRACKET, C_LF, C_TAB, C_LEFT_BRACKET, C_LF,
                       C_TAB, C_TAB, B_DIGIT, C_LF, C_TAB, C_RIGHT_BRACKET,
                       C_COMMA, C_LF, C_TAB, B_DIGIT, C_LF, C_RIGHT_BRACKET,
                       C_LF>>

\* C8. Empty-structure special case: when a closing bracket is the first
\* token after an opening bracket (whitespace aside), the opening bracket is
\* the last byte written so far and the closing bracket is written right
\* after it, with nothing in between, at any depth and for any configuration.
C8_EmptyStructure ==
    [][(src.last = "open" /\ src'.last = "close")
          => /\ Emitted # <<>>
             /\ Emitted[Len(Emitted)] \in Openers
             /\ Emitted' = Append(Emitted, consumed'[Len(consumed')])]_vars

\* `[{ }` was pretty-printed: the nested empty object is written as `{}`.
C8_Witness ==
    /\ opts = pretty_printer /\ src.last = "close" /\ pc = "loop"
    /\ consumed = <<C_LEFT_BRACKET, C_LEFT_BRACE, C_SPACE, C_RIGHT_BRACE>>
    /\ Emitted = <<C_LEFT_BRACKET, C_LF, C_SPACE, C_SPACE, C_LEFT_BRACE,
                   C_RIGHT_BRACE>>

\* The configurations whose record separator is a byte that nothing else
\* puts into the output of a valid stream.
CountsSeparators == opts \in {custom_printer, minimizer}

RecordSeparators == CountByte(Emitted, opts.record_separator[1])
                    - (IF pc = "ok" THEN CountByte(opts.trailing_output, opts.record_separator[1]) ELSE 0)

\* C9. For a stream of k >= 1 root-level objects or arrays the output holds
\* exactly k-1 record separators, none at its start and none at the end of
\* the formatted records.
C9_SeparatorsBetweenRecords ==
    (CountsSeparators /\ src.roots # <<>> /\ Range(src.roots) = {"C"})
        => /\ RecordSeparators = Len(src.roots) - 1
           /\ Emitted[1] # opts.record_separator[1]
           /\ (pc = "loop" => Emitted[Len(Emitted)] # opts.record_separator[1])

\* `[1]{}[]` was minimized to three lines.
C9_Witness ==
    /\ opts = minimizer /\ pc = "ok" /\ src.roots = <<"C", "C", "C">>
    /\ writer.sink = <<C_LEFT_BRACKET, B_DIGIT, C_RIGHT_BRACKET, C_LF,
                       C_LEFT_BRACE, C_RIGHT_BRACE, C_LF,
                       C_LEFT_BRACKET, C_RIGHT_BRACKET>>

\* C10 (as claimed). A record separator is written between every two
\* consecutive root-level values, whatever their kind.
C10_SeparatorBetweenAllValues ==
    (CountsSeparators /\ src.roots # <<>>)
        => RecordSeparators = Len(src.roots) - 1

\* C10 (amended). A root-level value is written with the record separator
\* before it exactly when it is an object or array and an object or array
\* came earlier in the stream at root level; every other root-level value (a
\* string, a number, a first object or array) is written bare, right after
\* what precedes it.
C10_SeparatorOnlyBetweenContainers ==
    [][(Len(src'.roots) = Len(src.roots) + 1)
          => LET n   == Len(consumed') - Len(consumed)
                 sep == IF src'.roots[Len(src'.roots)] = "C" /\ "C" \in Range(src.roots)
                        THEN opts.record_separator ELSE <<>>
             IN  Emitted' = Emitted \o sep \o Suffix(consumed', n)]_vars

\* `1{}{}` with the separator "X" gave `1{}X{}`.
C10_Witness ==
    /\ opts = custom_printer /\ pc = "loop" /\ src.roots = <<"S", "C", "C">>
    /\ consumed = <<B_DIGIT, C_LEFT_BRACE, C_RIGHT_BRACE, C_LEFT_BRACE, C_RIGHT_BRACE>>
    /\ Emitted = <<B_DIGIT, C_LEFT_BRACE, C_RIGHT_BRACE, B_X, C_LEFT_BRACE, C_RIGHT_BRACE>>

\* ------------------------------------------------------------------------
\* Further configurations, set through the Formatter's public fields

\* The pretty printer with a tab indent (jsonxf -t, the pretty-print tests).
tab_printer == [pretty_printer EXCEPT !.indent = <<C_TAB>>]

\* The minimizer of the trailing_output test: trailing_output "X".
trailing_minimizer == [minimizer EXCEPT !.trailing_output = <<B_X>>]

\* Option strings made of bytes that are JSON syntax.
syntax_printer ==
    [indent |-> <<C_QUOTE>>, line_separator |-> <<C_LEFT_BRACE, C_BACKSLASH>>,
     record_separator |-> <<C_RIGHT_BRACKET>>, after_colon |-> <<C_COMMA, C_COLON>>,
     trailing_output |-> <<C_QUOTE, C_LEFT_BRACKET>>]

OptionConfigs == {tab_printer, trailing_minimizer, syntax_printer}

InitOptions ==
    /\ opts \in OptionConfigs
    /\ depth = 0 /\ in_string = FALSE /\ in_backslash = FALSE
    /\ empty = FALSE /\ first = TRUE
    /\ writer = NewWriter(-1)
    /\ pc = "loop"
    /\ consumed = <<>>
    /\ src = NewSource
    /\ cli = NoCli

SpecOptions == InitOptions /\ [][NextJson]_vars

\* ------------------------------------------------------------------------
\* Eager record separators. main.rs:154 and tests/pretty_print_test.rs use a
\* Formatter option, eager_record_separators, and a pretty_print(input,
\* indent) that sets it; jsonxf.rs as given has neither, so this part follows
\* the specification: in eager mode the record separator is written right
\* after the bracket that closes a root-level value, and therefore not again
\* before the bracket that opens the next one.

open_bracket_eager(o, st, b) ==
    IF ~st.first /\ ~st.empty /\ st.depth = 0
    THEN LET s1 == [st EXCEPT !.depth = st.depth + 1, !.empty = TRUE]
             w1 == write(st.w, <<b>>)
         IN  IF ~w1.ok THEN Failed(s1, w1) ELSE [s1 EXCEPT !.w = w1]
    ELSE open_bracket(o, st, b)

close_bracket_eager(o, st, b, oc) ==
    LET s1 == close_bracket(o, st, b, oc)
    IN  IF s1.res = "ok" /\ s1.depth = 0
        THEN LET w1 == write(s1.w, o.record_separator)
             IN  IF ~w1.ok THEN Failed(s1, w1) ELSE [s1 EXCEPT !.w = w1]
        ELSE s1

format_byte_eager(o, st, b, oc) ==
    IF ~st.in_string /\ b \in {C_LEFT_BRACKET, C_LEFT_BRACE} THEN open_bracket_eager(o, st, b)
    ELSE IF ~st.in_string /\ b \in {C_RIGHT_BRACKET, C_RIGHT_BRACE}
    THEN close_bracket_eager(o, st, b, oc)
    ELSE format_byte(o, st, b, oc)

RECURSIVE format_from_eager(_, _, _, _, _)
format_from_eager(o, st, buf, n, oc) ==
    IF n > Len(buf) \/ st.res # "ok" THEN [st EXCEPT !.n = n - 1]
    ELSE format_from_eager(o, format_byte_eager(o, st, buf[n], oc), buf, n + 1, oc)

format_buf_eager(o, st, buf, oc) == format_from_eager(o, st, buf, 1, oc)

\* pretty_print(input, "\t") of the tests, and the two-space indent of main.rs.
EagerConfigs == {tab_printer, pretty_printer}

InitEager ==
    /\ opts \in EagerConfigs
    /\ depth = 0 /\ in_string = FALSE /\ in_backslash = FALSE
    /\ empty = FALSE /\ first = TRUE
    /\ writer = NewWriter(-1)
    /\ pc = "loop"
    /\ consumed = <<>>
    /\ src = NewSource
    /\ cli = NoCli

ReadEager ==
    /\ pc = "loop"
    /\ \E m \in SourceMoves(src) :
         /\ Len(consumed) + Len(m[1]) <= MaxJsonLen
         /\ src' = m[2]
         /\ Formatted(m[1], format_buf_eager(opts, State, m[1], TRUE))
    /\ UNCHANGED <<opts, cli>>

NextEager == ReadEager \/ EofJson

SpecEager == InitEager /\ [][NextEager]_vars

\* The newlines of out that end a record: those followed by nothing or by
\* the opening bracket of the next record (inside a record a newline is
\* followed by an indent, a value or a closing bracket).
RecordEnds(out) ==
    Cardinality({i \in DOMAIN out :
                    /\ out[i] = C_LF
                    /\ (i = Len(out) \/ out[i + 1] \in Openers)})

format_stream(o, input) ==
    LET r == IF input = <<>> THEN NewState(-1) ELSE format_buf(o, NewState(-1), input, TRUE)
    IN  IF r.res # "ok" THEN [res |-> r.res, out |-> Left(r).sink]
        ELSE LET w1 == write(r.w, o.trailing_output)
             IN  [res |-> IF w1.ok THEN "ok" ELSE "err", out |-> drop_writer(w1).sink]

\* The length of the UTF-8 sequence that the bytes at s[i..] begin with, 0
\* when they begin with none (String::from_utf8's validation).
Utf8SeqLen(s, i) ==
    LET b      == s[i]
        cont(j) == j <= Len(s) /\ s[j] \in 128..191
        snd(lo, hi) == i + 1 <= Len(s) /\ s[i + 1] \in lo..hi
    IN  IF b < 128 THEN 1
        ELSE IF b \in 194..223 THEN (IF cont(i + 1) THEN 2 ELSE 0)
        ELSE IF b \in 224..239
        THEN (IF /\ snd(IF b = 224 THEN 160 ELSE 128, IF b = 237 THEN 159 ELSE 191)
                 /\ cont(i + 2) THEN 3 ELSE 0)
        ELSE IF b \in 240..244
        THEN (IF /\ snd(IF b = 240 THEN 144 ELSE 128, IF b = 244 THEN 143 ELSE 191)
                 /\ cont(i + 2) /\ cont(i + 3) THEN 4 ELSE 0)
        ELSE 0

RECURSIVE Utf8From(_, _)
Utf8From(s, i) ==
    IF i > Len(s) THEN TRUE
    ELSE LET k == Utf8SeqLen(s, i)
         IN  k > 0 /\ Utf8From(s, i + k)

\* String::from_utf8(output) is Ok
from_utf8(s) == Utf8From(s, 1)

\* Formatter::format (jsonxf.rs:149-165) on a new Formatter with options o.
format(o, input) ==
    LET r == format_stream(o, input)
    IN  IF r.res # "ok" THEN [res |-> r.res, out |-> <<>>]
        ELSE IF from_utf8(r.out) THEN r
        ELSE [res |-> "utf8", out |-> <<>>]

\* jsonxf.rs:315-317
pretty_print(json_string) == format(pretty_printer, json_string)

\* jsonxf.rs:365-367
minimize(json_string) == format(minimizer, json_string)

\* C12. Minimizing is idempotent: for every valid JSON value (or stream of
\* values) x, minimize(x) succeeds and minimize(minimize(x)) is minimize(x),
\* byte for byte.
C12_MinimizeIdempotent ==
    (opts = minimizer /\ Complete(src))
        => LET m == minimize(consumed)
           IN  m.res = "ok" /\ minimize(m.out) = m

\* `[ 1]`, which minimizing changes, was minimized to `[1]`.
C12_Witness ==
    /\ opts = minimizer /\ Complete(src)
    /\ consumed = <<C_LEFT_BRACKET, C_SPACE, B_DIGIT, C_RIGHT_BRACKET>>
    /\ minimize(consumed).out = <<C_LEFT_BRACKET, B_DIGIT, C_RIGHT_BRACKET>>

\* C13. Round trip: for every valid JSON value (or stream of values) x,
\* minimize(pretty_print(minimize(x))) is minimize(x), byte for byte.
C13_RoundTrip ==
    (opts = pretty_printer /\ Complete(src))
        => LET m == minimize(consumed)
               p == pretty_print(m.out)
           IN  m.res = "ok" /\ p.res = "ok" /\ minimize(p.out) = m

\* `{"a":1}` was pretty-printed to four more bytes than its minimized form.
C13_Witness ==
    /\ opts = pretty_printer /\ Complete(src)
    /\ consumed = <<C_LEFT_BRACE, C_QUOTE, B_LETTER, C_QUOTE, C_COLON, B_DIGIT, C_RIGHT_BRACE>>
    /\ pretty_print(minimize(consumed).out).out
         = <<C_LEFT_BRACE, C_LF, C_SPACE, C_SPACE, C_QUOTE, B_LETTER, C_QUOTE, C_COLON,
             C_SPACE, B_DIGIT, C_LF, C_RIGHT_BRACE>>

\* C14. The trailing output is written exactly once per format_stream call,
\* after the last byte of formatted output and only once the source has
\* reported the end of input: with trailing_output "X" (a byte no input
\* holds) the output has no X while the loop runs, and exactly one, as its
\* last byte, when the call has returned; for an empty input the output is
\* "X" alone.
C14_TrailingOutputOnce ==
    opts = trailing_minimizer
        => /\ pc = "loop" => CountByte(Emitted, B_X) = 0
           /\ pc = "ok" => /\ CountByte(writer.sink, B_X) = 1
                           /\ writer.sink[Len(writer.sink)] = B_X
                           /\ writer.buf = <<>>
                           /\ consumed = <<>> => writer.sink = <<B_X>>

\* `[1] []` was minimized in several reads and ended with the single "X".
C14_Witness ==
    /\ opts = trailing_minimizer /\ pc = "ok"
    /\ consumed = <<C_LEFT_BRACKET, B_DIGIT, C_RIGHT_BRACKET, C_SPACE, C_LEFT_BRACKET, C_RIGHT_BRACKET>>
    /\ writer.sink = <<C_LEFT_BRACKET, B_DIGIT, C_RIGHT_BRACKET, C_LF,
                       C_LEFT_BRACKET, C_RIGHT_BRACKET, B_X>>

\* ------------------------------------------------------------------------
\* UTF-8 text: the input arrives one whole character at a time, and is any
\* well-formed UTF-8 text (valid JSON or not).

B_UTF8_CONT == 169

\* U+00E9 in UTF-8
E_ACUTE == <<B_UTF8_LEAD, B_UTF8_CONT>>

Utf8Chars ==
    {<<C_LEFT_BRACKET>>, <<C_RIGHT_BRACKET>>, <<C_LEFT_BRACE>>, <<C_COMMA>>, <<C_COLON>>,
     <<C_QUOTE>>, <<C_BACKSLASH>>, <<C_SPACE>>, E_ACUTE}

\* Option strings with a multi-byte character.
utf8_printer ==
    [indent |-> E_ACUTE, line_separator |-> <<C_LF>> \o E_ACUTE, record_separator |-> E_ACUTE,
     after_colon |-> E_ACUTE, trailing_output |-> E_ACUTE]

Utf8Configs == {pretty_printer, utf8_printer}

InitUtf8 ==
    /\ opts \in Utf8Configs
    /\ depth = 0 /\ in_string = FALSE /\ in_backslash = FALSE
    /\ empty = FALSE /\ first = TRUE
    /\ writer = NewWriter(-1)
    /\ pc = "loop"
    /\ consumed = <<>>
    /\ src = NewSource
    /\ cli = NoCli

\* reader.read returned the bytes of one character.
ReadChar ==
    /\ pc = "loop"
    /\ \E c \in Utf8Chars :
         /\ Len(consumed) + Len(c) <= MaxLen
         /\ \E r \in Outcomes(c) : Formatted(c, r)
    /\ UNCHANGED <<opts, src, cli>>

NextUtf8 == ReadChar \/ Eof

SpecUtf8 == InitUtf8 /\ [][NextUtf8]_vars

\* C15. With well-formed UTF-8 input and option strings, Formatter::format
\* never fails with an encoding error: every option string is written at a
\* character boundary of the input and no byte of a multi-byte character is
\* removed, so the bytes written always decode as UTF-8.
C15_OutputIsUtf8 ==
    /\ from_utf8(consumed)
    /\ from_utf8(Emitted)
    /\ format(opts, consumed).res # "utf8"
    /\ pc = "ok" => format(opts, consumed) = [res |-> "ok", out |-> writer.sink]

\* `[é` was formatted, the separator and indent written before the
\* two-byte character.
C15_Witness ==
    /\ opts = utf8_printer /\ pc = "ok"
    /\ consumed = <<C_LEFT_BRACKET>> \o E_ACUTE
    /\ writer.sink = <<C_LEFT_BRACKET, C_LF>> \o E_ACUTE \o E_ACUTE \o E_ACUTE \o E_ACUTE

\* C16. Depth never underflows: a closing bracket processed outside a string
\* while depth is 0 leaves depth at 0 and the run going (the decrement
\* saturates), so no later line is indented deeper than the brackets open.
C16_DepthSaturates ==
    [][(/\ pc = "loop" /\ depth = 0 /\ ~in_string
        /\ Len(consumed') = Len(consumed) + 1
        /\ consumed'[Len(consumed')] \in Closers)
          => depth' = 0 /\ pc' = "loop"]_vars

\* ------------------------------------------------------------------------
\* A source whose read can fail

\* The read with a slip: the error leaves the loop by `break`, so the
\* trailing output is still written before the error is reported.
ReadErr_breaks ==
    /\ pc = "loop"
    /\ writer' = drop_writer(write(writer, opts.trailing_output))
    /\ pc' = "read_err"
    /\ UNCHANGED <<opts, fmt, consumed, src, cli>>

\* Err(e) => return Err(e)  (jsonxf.rs:194-196): format_stream returns the
\* read's error; the writer is dropped on the way out.
ReadErr ==
    /\ pc = "loop"
    /\ writer' = drop_writer(writer)
    /\ pc' = "read_err"
    /\ UNCHANGED <<opts, fmt, consumed, src, cli>>

NextRead == ReadJson \/ ReadErr \/ EofJson

SpecRead == InitOptions /\ [][NextRead]_vars

\* C17. When a read fails, format_stream stops there and returns the error:
\* the step that meets the error writes nothing new (no closing bracket, no
\* trailing output; the bytes already formatted are all that reaches the
\* sink), leaves the parser state and the input position alone, and no step
\* follows it.
C17_ReadErrorStops ==
    [][/\ pc # "read_err"
       /\ pc' = "read_err"
            => /\ writer'.sink = Emitted /\ writer'.buf = <<>>
               /\ UNCHANGED <<fmt, consumed, src>>]_vars

\* The read failed inside `[1,`: the output stops after the comma, with the
\* array open and no trailing "X".
C17_Witness ==
    /\ opts = trailing_minimizer /\ pc = "read_err"
    /\ depth = 1 /\ src.stack = <<"A">>
    /\ writer.sink = <<C_LEFT_BRACKET, B_DIGIT, C_COMMA>>

\* ------------------------------------------------------------------------
\* Opaque option strings

\* A Formatter whose five option strings are each one tag that is no byte
\* (256 and up), so that every place an option is written shows in the
\* output.
tagged_printer ==
    [indent |-> <<256>>, line_separator |-> <<257>>, record_separator |-> <<258>>,
     after_colon |-> <<259>>, trailing_output |-> <<260>>]

\* out with every tag replaced by the option string of o it stands for.
RECURSIVE Expand(_, _)
Expand(out, o) ==
    IF out = <<>> THEN <<>>
    ELSE LET x == Head(out)
         IN  (IF x = 256 THEN o.indent
              ELSE IF x = 257 THEN o.line_separator
              ELSE IF x = 258 THEN o.record_separator
              ELSE IF x = 259 THEN o.after_colon
              ELSE IF x = 260 THEN o.trailing_output
              ELSE <<x>>) \o Expand(Tail(out), o)

\* C18. The option strings are opaque: after every read the parser state is
\* the one the same input gives under any other option strings (here the
\* tagged ones), whatever the strings contain, and the output is the tagged
\* output with each tag replaced by a verbatim copy of its option string.
C18_OptionsOpaque ==
    LET r   == format_buf(tagged_printer, NewState(-1), consumed, TRUE)
        out == r.w.sink \o r.w.buf \o (IF pc = "ok" THEN tagged_printer.trailing_output ELSE <<>>)
    IN  /\ fmt = <<r.depth, r.in_string, r.in_backslash, r.empty, r.first>>
        /\ Emitted = Expand(out, opts)

\* `{"a":1}` was formatted with option strings made of quotes, backslashes,
\* brackets, commas and colons.
C18_Witness ==
    /\ opts = syntax_printer /\ pc = "ok" /\ depth = 0 /\ ~in_string
    /\ consumed = <<C_LEFT_BRACE, C_QUOTE, B_LETTER, C_QUOTE, C_COLON, B_DIGIT, C_RIGHT_BRACE>>
    /\ writer.sink = <<C_LEFT_BRACE, C_LEFT_BRACE, C_BACKSLASH, C_QUOTE,
                       C_QUOTE, B_LETTER, C_QUOTE, C_COLON, C_COMMA, C_COLON, B_DIGIT,
                       C_LEFT_BRACE, C_BACKSLASH, C_RIGHT_BRACE, C_QUOTE, C_LEFT_BRACKET>>

\* ------------------------------------------------------------------------
\* The opening-bracket arm

\* A read that handed format_buf an opening bracket outside a string.
OpenerStep == src'.stripped # src.stripped /\ src'.last = "open"

\* An opening bracket has been processed: the first one of a stream opens a
\* root-level object or array.
BracketSeen(s) == "C" \in Range(s.roots)

\* d copies of ind
RECURSIVE Repeat(_, _)
Repeat(ind, d) == IF d = 0 THEN <<>> ELSE ind \o Repeat(ind, d - 1)

C23_BackslashOnlyInString ==
    /\ [](in_backslash => in_string)
    /\ [][(OneByteStep /\ in_backslash) => (~in_backslash' /\ in_string')]_vars

\* `"\"` was read: the quote after the backslash cleared the flag and did
\* not close the string.
C23_Witness ==
    /\ consumed = <<C_QUOTE, C_BACKSLASH, C_QUOTE>>
    /\ in_string /\ ~in_backslash /\ pc = "loop"

\* The caller with a slip in the Formatter: format_stream begins by putting
\* the private state back to that of a new Formatter.
NewCall_resets ==
    /\ pc = "ok"
    /\ pc' = "loop"
    /\ writer' = NewWriter(-1)
    /\ depth' = 0 /\ in_string' = FALSE /\ in_backslash' = FALSE
    /\ empty' = FALSE /\ first' = TRUE
    /\ UNCHANGED <<opts, consumed, src, cli>>

\* format_stream is called again on the same Formatter, with a new writer
\* (jsonxf.rs:182-185): the entry assigns no field of self. consumed and src
\* go on counting the input of all the calls.
NewCall ==
    /\ pc = "ok"
    /\ pc' = "loop"
    /\ writer' = NewWriter(-1)
    /\ UNCHANGED <<opts, fmt, consumed, src, cli>>

NextReuse == ReadJson \/ EofJson \/ NewCall

SpecReuse == Init /\ [][NextReuse]_vars

\* C24. While a Formatter consumes complete valid JSON values, depth is the
\* number of unmatched opening brackets seen outside strings, and once the
\* values are complete depth is 0 and in_string, in_backslash and empty are
\* false. format_stream resets nothing: neither its return nor a further
\* call on the same Formatter changes a state field, and first, once false,
\* stays false.
C24_StateReturnsNotReset ==
    /\ [](/\ depth = Len(src.stack)
          /\ Complete(src) => (depth = 0 /\ ~in_string /\ ~in_backslash /\ ~empty))
    /\ [][/\ (pc' # pc) => UNCHANGED fmt
          /\ ~first => ~first']_vars

\* A second format_stream call on the Formatter that had minimized `[1]`
\* wrote `[]` behind a record separator: first was still false.
C24_Witness ==
    /\ opts = minimizer /\ pc = "ok" /\ ~first /\ depth = 0 /\ ~empty
    /\ consumed = <<C_LEFT_BRACKET, B_DIGIT, C_RIGHT_BRACKET, C_LEFT_BRACKET, C_RIGHT_BRACKET>>
    /\ writer.sink = <<C_LF, C_LEFT_BRACKET, C_RIGHT_BRACKET>>

\* ------------------------------------------------------------------------
\* The command-line tool (main.rs). pc goes "args", "opened", "loop" (the
\* format_stream call), the call's result, "renamed", "exit".

\* The length of the input file or stream, in bytes.
MaxFileLen == 3

\* -i and -o values; "-" is standard input or output (as is a missing
\* option). "a.json" and "./a.json" are two names of one file.
InputArgs == {"-", "a.json"}
OutputArgs == {"-", "a.json", "./a.json", "b.json"}

\* The file a path names.
FileOf(path) ==
    CASE path \in {"a.json", "./a.json"} -> "A"
      [] path = "b.json" -> "B"
      [] OTHER -> path

Files == {"A", "B", "a.json.tmp", "./a.json.tmp", "b.json.tmp"}

\* main.rs:115-124: the name File::create is given.
temp_filename(i, o) == IF i # "-" /\ i = o THEN o \o ".tmp" ELSE o

\* The kinds of io::Error a failing read or write returns.
ErrorKinds == {"BrokenPipe", "Other"}

\* A file holds its bytes from before the run ("original"), the bytes the
\* run has written to it ("output"), or does not exist ("absent").
InitCli ==
    /\ opts \in {pretty_printer, minimizer}
    /\ depth = 0 /\ in_string = FALSE /\ in_backslash = FALSE
    /\ empty = FALSE /\ first = TRUE
    /\ \E left \in -1..MaxSinkLeft : writer = NewWriter(left)
    /\ pc = "args"
    /\ consumed = <<>>
    /\ src = NewSource
    /\ \E i \in InputArgs, o \in OutputArgs, k \in ErrorKinds, a \in {"original", "absent"} :
         cli = [at |-> "tool", i |-> i, o |-> o, kind |-> k,
                files |-> [f \in Files |-> IF f = "A" THEN a
                                           ELSE IF f = "B" THEN "original" ELSE "absent"],
                log |-> <<>>, result |-> "none", status |-> -1]

\* main.rs:83-107: the input is opened.
CliOpen ==
    /\ pc = "args"
    /\ IF cli.i = "-"
       THEN pc' = "opened" /\ cli' = cli
       ELSE IF cli.files[FileOf(cli.i)] = "absent"
       THEN pc' = "exit" /\ cli' = [cli EXCEPT !.status = 1]
       ELSE /\ pc' = "opened"
            /\ cli' = [cli EXCEPT !.log = Append(@, <<"open", FileOf(cli.i)>>)]
    /\ UNCHANGED <<opts, fmt, writer, consumed, src>>

\* main.rs:109-140: File::create makes the output file, or empties it when
\* it exists.
CliCreate ==
    /\ pc = "opened"
    /\ pc' = "loop"
    /\ IF cli.o = "-" THEN cli' = cli
       ELSE LET t == FileOf(temp_filename(cli.i, cli.o))
            IN  cli' = [cli EXCEPT !.files[t] = "output",
                                   !.log = Append(@, <<"create", t>>)]
    /\ UNCHANGED <<opts, fmt, writer, consumed, src>>

\* The input still has the bytes it had before the run.
InputIntact == IF cli.i = "-" THEN TRUE ELSE cli.files[FileOf(cli.i)] = "original"

\* main.rs:147-156: format_stream, reading the input. A file that
\* File::create has emptied gives no bytes.
CliRead == InputIntact /\ Len(consumed) < MaxFileLen /\ ReadJson /\ Len(consumed') <= MaxFileLen

\* main.rs:158-161: the rename, whatever format_stream returned. Renaming
\* a file to its own name changes nothing.
CliRename ==
    /\ pc \in {"ok", "err", "read_err"}
    /\ pc' = "renamed"
    /\ IF cli.o = "-" THEN cli' = [cli EXCEPT !.result = pc]
       ELSE LET t == FileOf(temp_filename(cli.i, cli.o))
                n == FileOf(cli.o)
            IN  cli' = [cli EXCEPT !.result = pc,
                                   !.files = IF t = n THEN @
                                             ELSE [@ EXCEPT ![n] = cli.files[t], ![t] = "absent"],
                                   !.log = Append(@, <<"rename", n>>)]
    /\ UNCHANGED <<opts, fmt, writer, consumed, src>>

\* The end of do_main with a slip: the BrokenPipe arm is missing.
CliExit_reports_broken_pipe ==
    /\ pc = "renamed"
    /\ pc' = "exit"
    /\ cli' = [cli EXCEPT !.status = IF cli.result = "ok" THEN 0 ELSE 1]
    /\ UNCHANGED <<opts, fmt, writer, consumed, src>>

\* main.rs:163-167 and 18-26: the exit status.
CliExit ==
    /\ pc = "renamed"
    /\ pc' = "exit"
    /\ cli' = [cli EXCEPT !.status = IF cli.result = "ok" THEN 0
                                     ELSE IF cli.kind = "BrokenPipe" THEN 0
                                     ELSE 1]
    /\ UNCHANGED <<opts, fmt, writer, consumed, src>>

NextCli == CliOpen \/ CliCreate \/ CliRead \/ ReadErr \/ EofJson \/ CliRename \/ CliExit

SpecCli == InitCli /\ [][NextCli]_vars

\* -i and -o name the same file.
SameFile == cli.at = "tool" /\ cli.i # "-" /\ cli.o # "-" /\ FileOf(cli.i) = FileOf(cli.o)

\* C21. In-place editing: when -i and -o name the same file, the output
\* goes to a separate temporary file; the named file holds no output before
\* format_stream has returned from reading it to its end; and the rename is
\* the last file-system step.
C21_InPlaceKeepsFileUntilRead ==
    SameFile
        => LET n == FileOf(cli.o)
           IN  /\ \A k \in DOMAIN cli.log : cli.log[k][1] = "create" => cli.log[k][2] # n
               /\ cli.files[n] = "output" => (pc \in {"renamed", "exit"} /\ cli.result = "ok")
               /\ \A k \in DOMAIN cli.log : cli.log[k][1] = "rename" => k = Len(cli.log)

\* C22. A broken-pipe error returned by format_stream is reported as
\* success (exit status 0); every other error it returns is reported as a
\* failure (exit status 1).
C22_BrokenPipeIsSuccess ==
    (cli.at = "tool" /\ pc = "exit" /\ cli.result \in {"err", "read_err"})
        => cli.status = IF cli.kind = "BrokenPipe" THEN 0 ELSE 1

\* Standard output was closed after one byte: the write of `[1]` failed
\* with BrokenPipe and the tool exited with status 0.
C22_Witness ==
    /\ cli.at = "tool" /\ pc = "exit" /\ cli.o = "-" /\ cli.kind = "BrokenPipe"
    /\ cli.result = "err" /\ cli.status = 0
    /\ consumed = <<C_LEFT_BRACKET, B_DIGIT, C_RIGHT_BRACKET>>

\* C25. When -i and -o name the same file and format_stream returns an
\* error, the file keeps its original contents: no rename has taken place.
C25_ErrorKeepsOriginal ==
    (SameFile /\ cli.result \in {"err", "read_err"})
        => /\ cli.files[FileOf(cli.o)] = "original"
           /\ \A k \in DOMAIN cli.log : cli.log[k][1] # "rename"

====
